---- MODULE Spec2Model ----
(***************************************************************************)
(* Christofides pipeline of src/services/christofidesService.ts:           *)
(* encontrarAGM (Prim), encontrarVerticesGrauImpar,                        *)
(* emparelhamentoPerfeitoCustoMinimo (greedy matching),                    *)
(* encontrarCicloEuleriano (stack walk), criarCicloHamiltoniano            *)
(* (shortcutting), run in order by executeChristofidesAlgorithm.           *)
(* Vertex ids are 0..n-1 as in the source; arrays are functions over       *)
(* 0..n-1, growing lists are sequences.                                    *)
(***************************************************************************)
EXTENDS Integers, Sequences, FiniteSets, TLC

\* ------------------------------------------------------------------ bounds
\* Largest vertex count of the symmetric, zero-diagonal input graphs.
MaxN == 4
\* Largest vertex count of the unrestricted (asymmetric, any diagonal) inputs.
MaxNGeral == 2
\* Cost values a matrix cell is drawn from (0 means "no edge" off the diagonal).
Custos == {0, 1, 3}

\* Most matrix rows after the first line of an input text, most cells in a row.
MaxLinhas == 2
MaxCelulas == 2

\* Most vertices of a graph whose matrix carries the unreachable sentinel.
MaxNSentinela == 3

\* Most vertices of a graph whose matrix has negative and unreachable entries.
MaxNSinal == 2

\* Most vertices of a directional distance table (zero diagonal, asymmetric).
MaxNAssimetrico == 3

\* Most stops of a tour handed to getMultipleRoutePathGeometries.
MaxParadas == 3

\* Most suggestion requests in flight at once.
MaxPedidos == 2

\* Most locations the planner's list is followed to.
MaxLocais == 6

\* The planner starts with six locations (part_002 lines 23-30).
LocaisIniciais == 6

\* JavaScript's Infinity: larger than every finite cost or sum of the model.
Infinity == 1000000

\* null / undefined results
Nulo == [nulo |-> TRUE]

VARIABLES
    grafo,              \* [n, m]: vertices.length and matrizAdjacencia
    pc,                 \* position inside executeChristofidesAlgorithm
    i,                  \* encontrarAGM: outer loop counter
    pai, custoMin, naAGM, arestasAGM,      \* encontrarAGM locals
    agm, verticesGrauImpar, emparelhamento, cicloEuleriano, \* stage results
    naoEmparelhados, emp,                  \* matcher locals
    adj, pilha, ciclo,                     \* Eulerian walk locals
    resultado, erro,    \* what the invocation returned / threw
    execucao, anterior, \* invocation number on this graph, previous outcome
    texto,              \* resolverChristofides: the inputText being parsed
    app,                \* the React state of App
    planner,            \* the React state of PracticalPlanner
    pendente,           \* handlers suspended at an await, oldest first
    sugestao,           \* the planner's suggestion timer and requests in flight
    rotas               \* one call of getMultipleRoutePathGeometries

\* what the algorithm core never touches
ambiente == <<texto, app, planner, pendente, sugestao, rotas>>

vars == <<grafo, pc, i, pai, custoMin, naAGM, arestasAGM, agm, verticesGrauImpar,
          emparelhamento, cicloEuleriano, naoEmparelhados, emp, adj, pilha,
          ciclo, resultado, erro, execucao, anterior, ambiente>>

Vertices(n) == 0 .. (n - 1)

\* ------------------------------------------------------------- arithmetic
\* number + number with Infinity absorbing
Mais(a, b) == IF a >= Infinity \/ b >= Infinity THEN Infinity ELSE a + b

Aresta(de, para, peso) == [de |-> de, para |-> para, peso |-> peso]

RECURSIVE SomaPesos(_)
SomaPesos(arestas) ==
    IF arestas = <<>> THEN 0
    ELSE Mais(Head(arestas).peso, SomaPesos(Tail(arestas)))

RECURSIVE Reverse(_)
Reverse(s) == IF s = <<>> THEN <<>> ELSE Append(Reverse(Tail(s)), Head(s))

\* ------------------------------------------------------------ input graphs
Pares(n) == {p \in Vertices(n) \X Vertices(n) : p[1] < p[2]}

MatrizSimetrica(n, f) ==
    [a \in Vertices(n) |-> [b \in Vertices(n) |->
        IF a = b THEN 0 ELSE IF a < b THEN f[<<a, b>>] ELSE f[<<b, a>>]]]

\* g is a symmetric graph with a zero diagonal, of at most MaxN vertices
GrafoSimetrico(g) ==
    \E k \in 0 .. MaxN : \E f \in [Pares(k) -> Custos] :
        g = [n |-> k, m |-> MatrizSimetrica(k, f)]

\* g is a graph with any matrix over Custos, of at most MaxNGeral vertices
GrafoGeral(g) ==
    \E k \in 1 .. MaxNGeral : \E f \in [Vertices(k) -> [Vertices(k) -> Custos]] :
        g = [n |-> k, m |-> f]

\* the four-vertex scenario of the specification's testable properties
GrafoExemplo ==
    [n |-> 4,
     m |-> [a \in Vertices(4) |-> [b \in Vertices(4) |->
              IF a = b THEN 0
              ELSE IF {a, b} = {0, 1} THEN 1
              ELSE IF {a, b} = {0, 2} THEN 2
              ELSE IF {a, b} = {0, 3} THEN 3
              ELSE IF {a, b} = {1, 2} THEN 4
              ELSE IF {a, b} = {1, 3} THEN 5
              ELSE 6]]]

GrafoDeEntrada(g) == GrafoSimetrico(g) \/ GrafoGeral(g) \/ g = GrafoExemplo

\* -------------------------------------------------------------- encontrarAGM
\* the scan with the naAGM test forgotten
RECURSIVE EscolherUSemMarca(_, _, _, _, _)
EscolherUSemMarca(v, u, n, na, cm) ==
    IF v >= n THEN u
    ELSE EscolherUSemMarca(v + 1,
                           IF u = -1 \/ cm[v] < cm[u] THEN v ELSE u,
                           n, na, cm)

\* the scan keeping the last vertex of least custoMin instead of the first
RECURSIVE EscolherUUltimoEmpate(_, _, _, _, _)
EscolherUUltimoEmpate(v, u, n, na, cm) ==
    IF v >= n THEN u
    ELSE EscolherUUltimoEmpate(v + 1,
                   IF ~na[v] /\ (u = -1 \/ cm[v] <= cm[u]) THEN v ELSE u,
                   n, na, cm)

\* lines 41-46: the scan for the not-yet-included vertex of least custoMin
RECURSIVE EscolherU(_, _, _, _, _)
EscolherU(v, u, n, na, cm) ==
    IF v >= n THEN u
    ELSE EscolherU(v + 1,
                   IF ~na[v] /\ (u = -1 \/ cm[v] < cm[u]) THEN v ELSE u,
                   n, na, cm)

\* the relaxation test without the comparison against the best cost so far
RelaxaSemMinimo(peso, incluido, custoAtual) == peso > 0 /\ ~incluido

\* the relaxation test taking a zero entry for an edge
RelaxaZeroComoAresta(peso, incluido, custoAtual) ==
    peso >= 0 /\ ~incluido /\ peso < custoAtual

\* line 60: the relaxation test for vertex v against the row of u
Relaxa(peso, incluido, custoAtual) == peso > 0 /\ ~incluido /\ peso < custoAtual

\* the pushed edge with its weight read at the wrong column
ArestaAGMPesoErrado(u, p, m) == Aresta(p, u, m[u][u])

\* line 55: the edge pushed for a vertex u with a parent
ArestaAGM(u, p, m) == Aresta(p, u, m[u][p])

\* ------------------------------------------------- encontrarVerticesGrauImpar
\* the degree count with the para endpoint forgotten
GrauSoDe(arestas, v) == Cardinality({k \in DOMAIN arestas : arestas[k].de = v})

\* lines 71-75: graus[v] after the loop over the edges
Grau(arestas, v) ==
    Cardinality({k \in DOMAIN arestas : arestas[k].de = v})
  + Cardinality({k \in DOMAIN arestas : arestas[k].para = v})

\* the parity test of the filter inverted
RECURSIVE FiltrarPares(_, _, _)
FiltrarPares(id, numVertices, arestas) ==
    IF id >= numVertices THEN <<>>
    ELSE (IF Grau(arestas, id) % 2 = 0 THEN <<id>> ELSE <<>>)
         \o FiltrarPares(id + 1, numVertices, arestas)

\* line 76: the ids of odd grau, ascending
RECURSIVE FiltrarImpares(_, _, _)
FiltrarImpares(id, numVertices, arestas) ==
    IF id >= numVertices THEN <<>>
    ELSE (IF Grau(arestas, id) % 2 # 0 THEN <<id>> ELSE <<>>)
         \o FiltrarImpares(id + 1, numVertices, arestas)

encontrarVerticesGrauImpar(arestas, numVertices) ==
    FiltrarImpares(0, numVertices, arestas)

\* ------------------------------------------ emparelhamentoPerfeitoCustoMinimo
\* the scan keeping the last vertex at the least distance instead of the first
RECURSIVE MaisProximoUltimoEmpate(_, _, _, _, _)
MaisProximoUltimoEmpate(k, resto, linha, vMaisProximo, menorDistancia) ==
    IF k > Len(resto) THEN [v |-> vMaisProximo, d |-> menorDistancia]
    ELSE IF linha[resto[k]] <= menorDistancia
         THEN MaisProximoUltimoEmpate(k + 1, resto, linha, resto[k], linha[resto[k]])
         ELSE MaisProximoUltimoEmpate(k + 1, resto, linha, vMaisProximo, menorDistancia)

\* lines 87-95: scan of the remaining set, in insertion order, for the nearest
RECURSIVE MaisProximo(_, _, _, _, _)
MaisProximo(k, resto, linha, vMaisProximo, menorDistancia) ==
    IF k > Len(resto) THEN [v |-> vMaisProximo, d |-> menorDistancia]
    ELSE IF linha[resto[k]] < menorDistancia
         THEN MaisProximo(k + 1, resto, linha, resto[k], linha[resto[k]])
         ELSE MaisProximo(k + 1, resto, linha, vMaisProximo, menorDistancia)

\* the delete of the partner forgotten
RemoverNada(s, v) == s

\* Set.delete(v) on a set kept in insertion order
Remover(s, v) == SelectSeq(s, LAMBDA x : x # v)

\* ---------------------------------------------------- encontrarCicloEuleriano
\* lines 109-115: adjacency lists, each edge pushed at both endpoints
RECURSIVE ConstruirAdj(_, _)
ConstruirAdj(multigrafo, a) ==
    IF multigrafo = <<>> THEN a
    ELSE LET e  == Head(multigrafo)
             a1 == [a  EXCEPT ![e.de]   = Append(@, e.para)]
             a2 == [a1 EXCEPT ![e.para] = Append(@, e.de)]
         IN ConstruirAdj(Tail(multigrafo), a2)

\* Array.indexOf: first position (1-based here) of x, 0 when absent
IndexOf(s, x) ==
    IF \E k \in DOMAIN s : s[k] = x
    THEN CHOOSE k \in DOMAIN s : s[k] = x /\ \A j \in 1 .. (k - 1) : s[j] # x
    ELSE 0

\* the splice forgotten: the reverse adjacency stays
SpliceSemRemover(s, k) == s

\* Array.splice(index, 1)
Splice(s, k) == SubSeq(s, 1, k - 1) \o SubSeq(s, k + 1, Len(s))

\* ----------------------------------------------------- criarCicloHamiltoniano
\* the visited test forgotten: every entry of the circuit is kept
PrimeirasOcorrenciasSemVisitados(s, visitados) == s

\* lines 142-147: keep the first occurrence of every vertex
RECURSIVE PrimeirasOcorrencias(_, _)
PrimeirasOcorrencias(s, visitados) ==
    IF s = <<>> THEN <<>>
    ELSE IF Head(s) \in visitados
         THEN PrimeirasOcorrencias(Tail(s), visitados)
         ELSE <<Head(s)>> \o PrimeirasOcorrencias(Tail(s), visitados \cup {Head(s)})

\* line 154: matriz[de] && matriz[de][para] !== undefined
EntradaValida(m, de, para) == de \in DOMAIN m /\ para \in DOMAIN m[de]

\* lines 151-158: every consecutive pair of the closed path has a matrix entry
CaminhoValido(caminho, m) ==
    \A k \in 1 .. (Len(caminho) - 1) : EntradaValida(m, caminho[k], caminho[k + 1])

\* the accumulation written as custo += custo + matriz[de][para]
RECURSIVE CustoCaminhoAcumulado(_, _, _, _)
CustoCaminhoAcumulado(caminho, k, m, custo) ==
    IF k > Len(caminho) - 1 THEN custo
    ELSE CustoCaminhoAcumulado(caminho, k + 1, m,
             Mais(custo, Mais(custo, m[caminho[k]][caminho[k + 1]])))

\* the cost read against the direction of travel, matriz[para][de]
RECURSIVE CustoCaminhoTransposto(_, _, _, _)
CustoCaminhoTransposto(caminho, k, m, custo) ==
    IF k > Len(caminho) - 1 THEN custo
    ELSE CustoCaminhoTransposto(caminho, k + 1, m,
             Mais(custo, m[caminho[k + 1]][caminho[k]]))

\* lines 150-156: custo += matriz[de][para], left to right
RECURSIVE CustoCaminho(_, _, _, _)
CustoCaminho(caminho, k, m, custo) ==
    IF k > Len(caminho) - 1 THEN custo
    ELSE CustoCaminho(caminho, k + 1, m, Mais(custo, m[caminho[k]][caminho[k + 1]]))

\* the closing push of line 148 forgotten
criarCicloHamiltonianoSemFecho(euleriano, m) ==
    LET caminho == PrimeirasOcorrencias(euleriano, {})
    IN IF CaminhoValido(caminho, m)
       THEN [caminho |-> caminho, custo |-> CustoCaminho(caminho, 1, m, 0)]
       ELSE Nulo

\* the function's value; Nulo when line 157 throws
criarCicloHamiltoniano(euleriano, m) ==
    LET unicos  == PrimeirasOcorrencias(euleriano, {})
        caminho == Append(unicos, IF unicos = <<>> THEN -1 ELSE unicos[1])
    IN IF CaminhoValido(caminho, m)
       THEN [caminho |-> caminho, custo |-> CustoCaminho(caminho, 1, m, 0)]
       ELSE Nulo

\* ----------------------------------------------------------------- parseInput
\* A text is a sequence of lines, a line the sequence of its whitespace-separated
\* tokens, a token a sequence of characters.  The vertex positions parseInput
\* computes (lines 19-26) are presentation only and are left out.
Digitos == <<"0", "1", "2", "3", "4", "5", "6", "7", "8", "9">>
EhDigito(c) == \E k \in DOMAIN Digitos : Digitos[k] = c
ValorDigito(c) == (CHOOSE k \in DOMAIN Digitos : Digitos[k] = c) - 1

PalavraInfinity == <<"I", "n", "f", "i", "n", "i", "t", "y">>

NaN == [nan |-> TRUE, v |-> 0]
Numero(v) == [nan |-> FALSE, v |-> v]

\* value of a run of digits read left to right
RECURSIVE ValorDecimal(_, _)
ValorDecimal(ds, acc) ==
    IF ds = <<>> THEN acc ELSE ValorDecimal(Tail(ds), 10 * acc + ValorDigito(Head(ds)))

\* longest prefix of digits
RECURSIVE PrefixoDigitos(_)
PrefixoDigitos(t) ==
    IF t = <<>> \/ ~EhDigito(Head(t)) THEN <<>> ELSE <<Head(t)>> \o PrefixoDigitos(Tail(t))

TemSinal(t) == t # <<>> /\ Head(t) \in {"-", "+"}
SemSinal(t) == IF TemSinal(t) THEN Tail(t) ELSE t
Sinal(t) == IF t # <<>> /\ Head(t) = "-" THEN -1 ELSE 1

\* parseInt(s, 10) of a string that starts with token t: an optional sign and
\* the longest run of digits after it; whatever follows is ignored
parseInt(t) ==
    LET ds == PrefixoDigitos(SemSinal(t))
    IN IF ds = <<>> THEN NaN ELSE Numero(Sinal(t) * ValorDecimal(ds, 0))

\* Number(s) of a token: the empty string is 0, the whole token must be a
\* numeric literal (over this alphabet: signed digits, or signed Infinity)
Number(t) ==
    LET r == SemSinal(t)
    IN IF t = <<>> THEN Numero(0)
       ELSE IF r = PalavraInfinity THEN Numero(Sinal(t) * Infinity)
       ELSE IF r # <<>> /\ PrefixoDigitos(r) = r THEN Numero(Sinal(t) * ValorDecimal(r, 0))
       ELSE NaN

\* the first two digits after the point, as hundredths
Centesimos(ds) ==
    (IF Len(ds) >= 1 THEN 10 * ValorDigito(ds[1]) ELSE 0)
    + (IF Len(ds) >= 2 THEN ValorDigito(ds[2]) ELSE 0)

\* parseFloat(s) of a token, in hundredths: an optional sign, digits, an optional
\* point and digits; NaN when no digit is read (the tokens used have at most
\* two decimals)
parseFloat(t) ==
    LET r      == SemSinal(t)
        int    == PrefixoDigitos(r)
        depois == SubSeq(r, Len(int) + 1, Len(r))
        frac   == IF depois # <<>> /\ Head(depois) = "." THEN PrefixoDigitos(Tail(depois))
                  ELSE <<>>
    IN IF int = <<>> /\ frac = <<>> THEN NaN
       ELSE Numero(Sinal(t) * (100 * ValorDecimal(int, 0) + Centesimos(frac)))

\* String.trim on the whole text: blank lines at both ends go
RECURSIVE SemBrancoInicial(_)
SemBrancoInicial(ls) ==
    IF ls # <<>> /\ Head(ls) = <<>> THEN SemBrancoInicial(Tail(ls)) ELSE ls

Trim(ls) == Reverse(SemBrancoInicial(Reverse(SemBrancoInicial(ls))))

\* line 5: texto.trim().split('\n'); the empty text splits into one empty line
Linhas(t) == IF Trim(t) = <<>> THEN << <<>> >> ELSE Trim(t)

\* line 12: linha.trim().split(/\s+/).map(Number); a blank line is one empty token
Celulas(linha) ==
    IF linha = <<>> THEN <<Number(<<>>)>> ELSE [k \in DOMAIN linha |-> Number(linha[k])]

\* lines 4-29: [erro |-> message] when it throws, [grafo |-> g] otherwise
parseInput(t) ==
    LET linhas == Linhas(t)
        n      == IF linhas[1] = <<>> THEN NaN ELSE parseInt(linhas[1][1])
        matriz == [k \in 1 .. (Len(linhas) - 1) |-> Celulas(linhas[k + 1])]
    IN IF Len(linhas) < 2 THEN [erro |-> "EntradaInvalida"]
       ELSE IF n.nan \/ n.v <= 0 THEN [erro |-> "NInvalido"]
       ELSE IF \/ Len(matriz) # n.v
               \/ \E k \in DOMAIN matriz :
                     Len(matriz[k]) # n.v \/ \E c \in DOMAIN matriz[k] : matriz[k][c].nan
            THEN [erro |-> "DimensaoInvalida"]
       ELSE [grafo |-> [n |-> n.v,
                        m |-> [a \in Vertices(n.v) |-> [b \in Vertices(n.v) |->
                                 matriz[a + 1][b + 1].v]]]]

\* ------------------------------------------------------------------- state
\* the locals of a run that has not started, and no earlier run
SemExecucao ==
    /\ i = 0
    /\ pai = <<>> /\ custoMin = <<>> /\ naAGM = <<>> /\ arestasAGM = <<>>
    /\ agm = <<>> /\ verticesGrauImpar = <<>> /\ emparelhamento = <<>>
    /\ cicloEuleriano = <<>>
    /\ naoEmparelhados = <<>> /\ emp = <<>>
    /\ adj = <<>> /\ pilha = <<>> /\ ciclo = <<>>
    /\ resultado = Nulo /\ erro = Nulo
    /\ execucao = 1 /\ anterior = Nulo

\* no text, no application around the core
SemAmbiente ==
    /\ texto = Nulo /\ app = Nulo /\ planner = Nulo /\ pendente = <<>>
    /\ sugestao = Nulo /\ rotas = Nulo

Init ==
    /\ GrafoDeEntrada(grafo)
    /\ pc = "inicio"
    /\ SemExecucao
    /\ SemAmbiente

Lanca(mensagem) ==
    /\ pc' = "erro"
    /\ erro' = [mensagem |-> mensagem]
    /\ resultado' = Nulo

\* arestasAGM kept across invocations instead of created by each call
ExecutarSemArestasNovas ==
    /\ pc = "inicio"
    /\ IF grafo.n = 0
       THEN /\ Lanca("GrafoVazio")
            /\ UNCHANGED <<i, pai, custoMin, naAGM, arestasAGM>>
       ELSE /\ pc' = "agm"
            /\ i' = 0
            /\ pai' = [v \in Vertices(grafo.n) |-> -1]
            /\ custoMin' = [v \in Vertices(grafo.n) |-> IF v = 0 THEN 0 ELSE Infinity]
            /\ naAGM' = [v \in Vertices(grafo.n) |-> FALSE]
            /\ arestasAGM' = arestasAGM
            /\ UNCHANGED <<resultado, erro>>
    /\ UNCHANGED <<grafo, agm, verticesGrauImpar, emparelhamento, cicloEuleriano,
                   naoEmparelhados, emp, adj, pilha, ciclo, execucao, anterior, ambiente>>

\* executeChristofidesAlgorithm entered: the empty-graph check, then the call of
\* encontrarAGM, whose locals are created fresh (lines 32-38)
Executar ==
    /\ pc = "inicio"
    /\ IF grafo.n = 0
       THEN /\ Lanca("GrafoVazio")
            /\ UNCHANGED <<i, pai, custoMin, naAGM, arestasAGM>>
       ELSE /\ pc' = "agm"
            /\ i' = 0
            /\ pai' = [v \in Vertices(grafo.n) |-> -1]
            /\ custoMin' = [v \in Vertices(grafo.n) |-> IF v = 0 THEN 0 ELSE Infinity]
            /\ naAGM' = [v \in Vertices(grafo.n) |-> FALSE]
            /\ arestasAGM' = <<>>
            /\ UNCHANGED <<resultado, erro>>
    /\ UNCHANGED <<grafo, agm, verticesGrauImpar, emparelhamento, cicloEuleriano,
                   naoEmparelhados, emp, adj, pilha, ciclo, execucao, anterior, ambiente>>

\* one iteration of the outer loop of encontrarAGM (lines 40-65)
PassoAGM ==
    /\ pc = "agm"
    /\ i < grafo.n
    /\ LET u == EscolherU(0, -1, grafo.n, naAGM, custoMin)
       IN IF u = -1 \/ custoMin[u] = Infinity
          THEN /\ Lanca("GrafoNaoConexo")
               /\ UNCHANGED <<i, pai, custoMin, naAGM, arestasAGM>>
          ELSE LET na1 == [naAGM EXCEPT ![u] = TRUE]
               IN /\ naAGM' = na1
                  /\ arestasAGM' = IF pai[u] # -1
                                   THEN Append(arestasAGM, ArestaAGM(u, pai[u], grafo.m))
                                   ELSE arestasAGM
                  /\ pai' = [v \in Vertices(grafo.n) |->
                               IF Relaxa(grafo.m[u][v], na1[v], custoMin[v])
                               THEN u ELSE pai[v]]
                  /\ custoMin' = [v \in Vertices(grafo.n) |->
                               IF Relaxa(grafo.m[u][v], na1[v], custoMin[v])
                               THEN grafo.m[u][v] ELSE custoMin[v]]
                  /\ i' = i + 1
                  /\ pc' = "agm"
                  /\ UNCHANGED <<resultado, erro>>
    /\ UNCHANGED <<grafo, agm, verticesGrauImpar, emparelhamento, cicloEuleriano,
                   naoEmparelhados, emp, adj, pilha, ciclo, execucao, anterior, ambiente>>

\* encontrarAGM returns arestasAGM (line 67), bound to agm (line 169)
RetornarAGM ==
    /\ pc = "agm"
    /\ i >= grafo.n
    /\ agm' = arestasAGM
    /\ pc' = "impar"
    /\ UNCHANGED <<grafo, i, pai, custoMin, naAGM, arestasAGM, verticesGrauImpar,
                   emparelhamento, cicloEuleriano, naoEmparelhados, emp, adj, pilha,
                   ciclo, resultado, erro, execucao, anterior, ambiente>>

\* line 170, then the call of the matcher with its fresh locals (lines 80-81)
EncontrarVerticesGrauImpar ==
    /\ pc = "impar"
    /\ LET impares == encontrarVerticesGrauImpar(agm, grafo.n)
       IN /\ verticesGrauImpar' = impares
          /\ naoEmparelhados' = impares
    /\ emp' = <<>>
    /\ pc' = "emp"
    /\ UNCHANGED <<grafo, i, pai, custoMin, naAGM, arestasAGM, agm, emparelhamento,
                   cicloEuleriano, adj, pilha, ciclo, resultado, erro, execucao,
                   anterior, ambiente>>

\* one iteration of the while loop of the matcher (lines 83-104)
PassoEmparelhamento ==
    /\ pc = "emp"
    /\ Len(naoEmparelhados) > 0
    /\ LET u     == Head(naoEmparelhados)
           resto == Tail(naoEmparelhados)
           prox  == MaisProximo(1, resto, grafo.m[u], -1, Infinity)
       IN IF prox.v # -1
          THEN /\ emp' = Append(emp, Aresta(u, prox.v, prox.d))
               /\ naoEmparelhados' = Remover(resto, prox.v)
               /\ pc' = "emp"
               /\ UNCHANGED <<resultado, erro>>
          ELSE IF Len(resto) > 0
          THEN /\ Lanca("SemPar")
               /\ UNCHANGED <<emp, naoEmparelhados>>
          ELSE /\ naoEmparelhados' = resto
               /\ pc' = "emp"
               /\ UNCHANGED <<emp, resultado, erro>>
    /\ UNCHANGED <<grafo, i, pai, custoMin, naAGM, arestasAGM, agm, verticesGrauImpar,
                   emparelhamento, cicloEuleriano, adj, pilha, ciclo, execucao,
                   anterior, ambiente>>

\* the multigraph built by pushing the matching onto agm itself
RetornarEmparelhamentoNaAGM ==
    /\ pc = "emp"
    /\ Len(naoEmparelhados) = 0
    /\ emparelhamento' = emp
    /\ agm' = agm \o emp
    /\ adj' = ConstruirAdj(agm', [v \in Vertices(grafo.n) |-> <<>>])
    /\ pilha' = <<0>>
    /\ ciclo' = <<>>
    /\ pc' = "euler"
    /\ UNCHANGED <<grafo, i, pai, custoMin, naAGM, arestasAGM, verticesGrauImpar,
                   cicloEuleriano, naoEmparelhados, emp, resultado, erro, execucao,
                   anterior, ambiente>>

\* the matcher returns (line 105); lines 171-174 build the multigraph and call
\* encontrarCicloEuleriano, which builds adj and the stack (lines 109-118)
RetornarEmparelhamento ==
    /\ pc = "emp"
    /\ Len(naoEmparelhados) = 0
    /\ emparelhamento' = emp
    /\ LET multigrafo      == agm \o emp
           inicioEuleriano == 0
       IN /\ adj' = ConstruirAdj(multigrafo, [v \in Vertices(grafo.n) |-> <<>>])
          /\ pilha' = <<inicioEuleriano>>
    /\ ciclo' = <<>>
    /\ pc' = "euler"
    /\ UNCHANGED <<grafo, i, pai, custoMin, naAGM, arestasAGM, agm, verticesGrauImpar,
                   cicloEuleriano, naoEmparelhados, emp, resultado, erro, execucao,
                   anterior, ambiente>>

\* one iteration of the stack walk (lines 120-133)
PassoEuleriano ==
    /\ pc = "euler"
    /\ Len(pilha) > 0
    /\ LET u        == pilha[Len(pilha)]
           vizinhos == adj[u]
       IN IF Len(vizinhos) > 0
          THEN LET v     == vizinhos[Len(vizinhos)]
                   adj1  == [adj EXCEPT ![u] = SubSeq(vizinhos, 1, Len(vizinhos) - 1)]
                   index == IndexOf(adj1[v], u)
               IN /\ pilha' = Append(pilha, v)
                  /\ adj' = IF index > 0
                            THEN [adj1 EXCEPT ![v] = Splice(@, index)]
                            ELSE adj1
                  /\ UNCHANGED ciclo
          ELSE /\ ciclo' = Append(ciclo, u)
               /\ pilha' = SubSeq(pilha, 1, Len(pilha) - 1)
               /\ UNCHANGED adj
    /\ UNCHANGED <<grafo, pc, i, pai, custoMin, naAGM, arestasAGM, agm,
                   verticesGrauImpar, emparelhamento, cicloEuleriano, naoEmparelhados,
                   emp, resultado, erro, execucao, anterior, ambiente>>

\* the walk returns ciclo.reverse() (line 135), bound to cicloEuleriano (line 174)
RetornarEuleriano ==
    /\ pc = "euler"
    /\ Len(pilha) = 0
    /\ cicloEuleriano' = Reverse(ciclo)
    /\ pc' = "ham"
    /\ UNCHANGED <<grafo, i, pai, custoMin, naAGM, arestasAGM, agm, verticesGrauImpar,
                   emparelhamento, naoEmparelhados, emp, adj, pilha, ciclo, resultado,
                   erro, execucao, anterior, ambiente>>

\* line 175 and the return of lines 177-183
CriarCicloHamiltoniano ==
    /\ pc = "ham"
    /\ LET h == criarCicloHamiltoniano(cicloEuleriano, grafo.m)
       IN IF h = Nulo
          THEN Lanca("ArestaInvalida")
          ELSE /\ resultado' = [agm |-> agm,
                                verticesGrauImpar |-> verticesGrauImpar,
                                emparelhamento |-> emparelhamento,
                                cicloEuleriano |-> cicloEuleriano,
                                cicloHamiltoniano |-> h]
               /\ pc' = "done"
               /\ UNCHANGED erro
    /\ UNCHANGED <<grafo, i, pai, custoMin, naAGM, arestasAGM, agm, verticesGrauImpar,
                   emparelhamento, cicloEuleriano, naoEmparelhados, emp, adj, pilha,
                   ciclo, execucao, anterior, ambiente>>

Next ==
    \/ Executar
    \/ PassoAGM
    \/ RetornarAGM
    \/ EncontrarVerticesGrauImpar
    \/ PassoEmparelhamento
    \/ RetornarEmparelhamento
    \/ PassoEuleriano
    \/ RetornarEuleriano
    \/ CriarCicloHamiltoniano

Spec == Init /\ [][Next]_vars

\* ------------------------------------------------------- resolverChristofides
SeqAte(S, n) == UNION {[1 .. k -> S] : k \in 0 .. n}

\* first lines: a count, a count followed by more text, something else, nothing
Cabecalhos ==
    {<<t>> : t \in {<<"0">>, <<"1">>, <<"2">>, <<"3">>, <<"-", "1">>, <<"a">>,
                    <<"2", "a">>}}
    \cup {<<<<"2">>, <<"1">>>>, <<>>}

TokensCelula == {<<"1">>, <<"a">>, PalavraInfinity}

InitParse ==
    /\ \E h \in Cabecalhos : \E k \in 0 .. MaxLinhas :
          \E ls \in [1 .. k -> SeqAte(TokensCelula, MaxCelulas)] :
              texto = [linhas |-> <<h>> \o ls]
    /\ pc = "parse"
    /\ grafo = Nulo
    /\ SemExecucao
    /\ app = Nulo /\ planner = Nulo /\ pendente = <<>>
    /\ sugestao = Nulo /\ rotas = Nulo

\* line 187: const grafo = parseInput(inputText)
ParseInput ==
    /\ pc = "parse"
    /\ LET r == parseInput(texto.linhas)
       IN IF "erro" \in DOMAIN r
          THEN /\ Lanca(r.erro)
               /\ UNCHANGED grafo
          ELSE /\ grafo' = r.grafo
               /\ pc' = "inicio"
               /\ UNCHANGED <<resultado, erro>>
    /\ UNCHANGED <<i, pai, custoMin, naAGM, arestasAGM, agm, verticesGrauImpar,
                   emparelhamento, cicloEuleriano, naoEmparelhados, emp, adj, pilha,
                   ciclo, execucao, anterior, ambiente>>

NextParse == ParseInput \/ Next

SpecParse == InitParse /\ [][NextParse]_vars

\* ------------------------------------------- getDistanceMatrixForLocations
\* App.tsx lines 263-265: a null distance becomes Infinity; the table is
\* directional, so (a, b) and (b, a) are marked independently
GrafosSentinela ==
    UNION {{[n |-> n, m |-> [a \in Vertices(n) |-> [b \in Vertices(n) |->
                                IF a = b THEN 0 ELSE f[<<a, b>>]]]] :
                f \in [{<<a, b>> \in Vertices(n) \X Vertices(n) : a # b} -> {1, Infinity}]} :
           n \in 1 .. MaxNSentinela}

InitSentinela ==
    /\ grafo \in GrafosSentinela
    /\ pc = "inicio"
    /\ SemExecucao
    /\ SemAmbiente

SpecSentinela == InitSentinela /\ [][Next]_vars

\* a negative cost, no edge, a cost, an unreachable pair
CustosComSinal == {-1, 0, 1, Infinity}

\* g has any matrix over CustosComSinal, diagonal included
GrafoComSinal(g) ==
    \E k \in 1 .. MaxNSinal : \E f \in [Vertices(k) -> [Vertices(k) -> CustosComSinal]] :
        g = [n |-> k, m |-> f]

InitSinal ==
    /\ GrafoComSinal(grafo)
    /\ pc = "inicio"
    /\ SemExecucao
    /\ SemAmbiente

SpecSinal == InitSinal /\ [][Next]_vars

\* the costs of a directional distance table: every pair connected, each way
\* at its own cost
CustosAssimetricos == {1, 3}

\* g has a zero diagonal and any costs over CustosAssimetricos elsewhere
GrafoAssimetrico(g) ==
    \E k \in 1 .. MaxNAssimetrico :
        \E f \in [{<<a, b>> \in Vertices(k) \X Vertices(k) : a # b} -> CustosAssimetricos] :
            g = [n |-> k, m |-> [a \in Vertices(k) |-> [b \in Vertices(k) |->
                                    IF a = b THEN 0 ELSE f[<<a, b>>]]]]

InitAssimetrico ==
    /\ GrafoAssimetrico(grafo)
    /\ pc = "inicio"
    /\ SemExecucao
    /\ SemAmbiente

SpecAssimetrico == InitAssimetrico /\ [][Next]_vars

\* -------------------------------- emparelhamentoPerfeitoCustoMinimo, on its own
\* the lists encontrarVerticesGrauImpar can build: distinct vertices, ascending
ListasDeVertices(n) ==
    {s \in SeqAte(Vertices(n), n) : \A j, k \in DOMAIN s : j < k => s[j] < s[k]}

\* lines 79-81: the call with a list and a matrix, an empty matching to fill
InitEmparelhamento ==
    /\ grafo \in GrafosSentinela
    /\ verticesGrauImpar \in ListasDeVertices(grafo.n)
    /\ naoEmparelhados = verticesGrauImpar
    /\ pc = "emp"
    /\ i = 0
    /\ pai = <<>> /\ custoMin = <<>> /\ naAGM = <<>> /\ arestasAGM = <<>>
    /\ agm = <<>> /\ emparelhamento = <<>> /\ cicloEuleriano = <<>>
    /\ emp = <<>>
    /\ adj = <<>> /\ pilha = <<>> /\ ciclo = <<>>
    /\ resultado = Nulo /\ erro = Nulo
    /\ execucao = 1 /\ anterior = Nulo
    /\ SemAmbiente

NextEmparelhamento == PassoEmparelhamento \/ RetornarEmparelhamento

SpecEmparelhamento == InitEmparelhamento /\ [][NextEmparelhamento]_vars

\* ====================================================================== App
\* The application around the core: the App component's state, the planner's
\* state while it is mounted, and the solve handlers suspended at an await.
\* JavaScript runs a handler to its next await before any other event, so user
\* events and resumptions only happen while no call of the core is running.

\* the text of the specification's four-vertex scenario
TextoExemplo ==
    <<<<<<"4">>>>,
      <<<<"0">>, <<"1">>, <<"2">>, <<"3">>>>,
      <<<<"1">>, <<"0">>, <<"4">>, <<"5">>>>,
      <<<<"2">>, <<"4">>, <<"0">>, <<"6">>>>,
      <<<<"3">>, <<"5">>, <<"6">>, <<"0">>>>>>

\* texts typed into the textarea: the empty text, texts parseInput rejects at
\* each of its checks, and texts on which each stage of the core ends the run
TextosApp ==
    {TextoExemplo,
     <<>>,
     <<<<<<"a">>>>>>,
     <<<<<<"0">>>>, <<<<"0">>>>>>,
     <<<<<<"3">>>>, <<<<"0">>, <<"1">>, <<"1">>>>, <<<<"1">>, <<"0">>, <<"1">>>>>>,
     <<<<<<"2">>>>, <<<<"0">>, <<"a">>>>, <<<<"1">>, <<"0">>>>>>,
     <<<<<<"2">>>>, <<<<"0">>, <<"0">>>>, <<<<"0">>, <<"0">>>>>>,
     <<<<<<"2">>>>, <<<<"0">>, <<"1">>>>, <<<<"1">>, <<"0">>>>>>,
     <<<<<<"3">>>>, <<<<"0">>, <<"1">>, <<"1">>>>, <<<<"1">>, <<"0">>, PalavraInfinity>>,
       <<<<"1">>, PalavraInfinity, <<"0">>>>>>}

Visualizacoes == {"agm", "emparelhamento", "euleriano", "final"}

TextosConsumo == {<<"1", "2">>, <<"0">>, <<>>}
TextosPreco == {<<"5", ".", "5", "0">>, <<"-", "1">>, <<>>}

\* part_002 lines 23-37
PlannerInicial ==
    [locations |-> LocaisIniciais,
     fuelConsumption |-> <<"1", "2">>,
     gasPrice |-> <<"5", ".", "5", "0">>]

\* cost matrices the planner builds from a distance table for n locations
\* (lines 116-118): all pairs at one cost, costs growing with the distance
\* between indices, one pair unreachable, the last location unreachable
GrafosPlanner(n) ==
    {[n |-> n, m |-> [a \in Vertices(n) |-> [b \in Vertices(n) |->
                        IF a = b THEN 0 ELSE 1]]],
     [n |-> n, m |-> [a \in Vertices(n) |-> [b \in Vertices(n) |->
                        IF a = b THEN 0 ELSE IF a < b THEN b - a ELSE a - b]]],
     [n |-> n, m |-> [a \in Vertices(n) |-> [b \in Vertices(n) |->
                        IF a = b THEN 0 ELSE IF {a, b} = {1, 2} THEN Infinity ELSE 1]]],
     [n |-> n, m |-> [a \in Vertices(n) |-> [b \in Vertices(n) |->
                        IF a = b THEN 0 ELSE IF n - 1 \in {a, b} THEN Infinity ELSE 1]]]}

ErrosDoServico == {"GeocodificacaoFalhou", "FalhaMatrizDistancia"}

\* no call of the core is running
Ocioso == pc = "ocioso"

\* App.tsx lines 25-30; the planner is not mounted in solver mode
InitApp ==
    /\ app = [mode |-> "solver", inputText |-> TextoExemplo, resultado |-> Nulo,
              erro |-> Nulo, isLoading |-> FALSE, visualizacaoAtiva |-> "final"]
    /\ planner = Nulo
    /\ sugestao = Nulo
    /\ rotas = Nulo
    /\ pendente = <<>>
    /\ texto = Nulo
    /\ grafo = Nulo
    /\ pc = "ocioso"
    /\ SemExecucao

\* what a step of the application leaves alone in the core
SemPasso ==
    UNCHANGED <<grafo, pc, i, pai, custoMin, naAGM, arestasAGM, agm, verticesGrauImpar,
                emparelhamento, cicloEuleriano, naoEmparelhados, emp, adj, pilha,
                ciclo, resultado, erro, execucao, anterior, texto, rotas>>

\* what the start of a call of the core leaves alone
SemLocais ==
    UNCHANGED <<i, pai, custoMin, naAGM, arestasAGM, agm, verticesGrauImpar,
                emparelhamento, cicloEuleriano, naoEmparelhados, emp, adj, pilha,
                ciclo, resultado, erro, execucao, anterior>>

\* App.tsx lines 54-58
Limpo(a) ==
    [a EXCEPT !.inputText = <<>>, !.resultado = Nulo, !.erro = Nulo,
              !.isLoading = FALSE, !.visualizacaoAtiva = "final"]

\* the start of both solve handlers (App.tsx lines 33-36, part_002 lines 101-104)
Carregando(a) ==
    [a EXCEPT !.isLoading = TRUE, !.erro = Nulo, !.resultado = Nulo,
              !.visualizacaoAtiva = "final"]

Retirar(s, k) == SubSeq(s, 1, k - 1) \o SubSeq(s, k + 1, Len(s))

\* ControlPanel line 41, textarea disabled={isLoading} (line 45)
setInputText ==
    /\ Ocioso
    /\ app.mode = "solver"
    /\ ~app.isLoading
    /\ \E t \in TextosApp : app' = [app EXCEPT !.inputText = t]
    /\ UNCHANGED <<planner, pendente, sugestao>>
    /\ SemPasso

\* ControlPanel line 50: disabled={isLoading || !inputText.trim()}
SolveHabilitado(a) == a.mode = "solver" /\ ~a.isLoading /\ Trim(a.inputText) # <<>>

\* the solve button with no disabled condition on isLoading
handleSolveMatrixSemDisabled ==
    /\ Ocioso
    /\ app.mode = "solver" /\ Trim(app.inputText) # <<>>
    /\ app' = Carregando(app)
    /\ pendente' = Append(pendente, [tipo |-> "matriz", inputText |-> app.inputText])
    /\ UNCHANGED <<planner, sugestao>>
    /\ SemPasso

\* App.tsx lines 32-39: the click runs the handler up to its await of the timer
handleSolveMatrix ==
    /\ Ocioso
    /\ SolveHabilitado(app)
    /\ app' = Carregando(app)
    /\ pendente' = Append(pendente, [tipo |-> "matriz", inputText |-> app.inputText])
    /\ UNCHANGED <<planner, sugestao>>
    /\ SemPasso

\* App.tsx lines 39-40: the timer fires and the handler calls
\* resolverChristofides with the inputText it captured
RetomarSolveMatrix ==
    /\ Ocioso
    /\ \E k \in DOMAIN pendente :
          /\ pendente[k].tipo = "matriz"
          /\ texto' = [linhas |-> pendente[k].inputText]
          /\ pendente' = Retirar(pendente, k)
    /\ pc' = "parse"
    /\ UNCHANGED <<grafo, app, planner, sugestao, rotas>>
    /\ SemLocais

\* the finally block forgotten when the call threw
ConcluirSolveSemFinally ==
    /\ pc \in {"done", "erro"}
    /\ app' = IF pc = "done"
              THEN [app EXCEPT !.resultado = [grafo |-> grafo] @@ resultado,
                               !.isLoading = FALSE]
              ELSE [app EXCEPT !.erro = erro]
    /\ pc' = "ocioso"
    /\ grafo' = Nulo /\ texto' = Nulo
    /\ i' = 0
    /\ pai' = <<>> /\ custoMin' = <<>> /\ naAGM' = <<>> /\ arestasAGM' = <<>>
    /\ agm' = <<>> /\ verticesGrauImpar' = <<>> /\ emparelhamento' = <<>>
    /\ cicloEuleriano' = <<>>
    /\ naoEmparelhados' = <<>> /\ emp' = <<>>
    /\ adj' = <<>> /\ pilha' = <<>> /\ ciclo' = <<>>
    /\ resultado' = Nulo /\ erro' = Nulo
    /\ UNCHANGED <<execucao, anterior, planner, pendente, sugestao, rotas>>

\* the call of the core has returned or thrown: setResultado or setErro, then
\* the finally block (App.tsx lines 41-50, part_002 lines 127-140); the call's
\* locals are gone
ConcluirSolve ==
    /\ pc \in {"done", "erro"}
    /\ app' = IF pc = "done"
              THEN [app EXCEPT !.resultado = [grafo |-> grafo] @@ resultado,
                               !.isLoading = FALSE]
              ELSE [app EXCEPT !.erro = erro, !.isLoading = FALSE]
    /\ pc' = "ocioso"
    /\ grafo' = Nulo /\ texto' = Nulo
    /\ i' = 0
    /\ pai' = <<>> /\ custoMin' = <<>> /\ naAGM' = <<>> /\ arestasAGM' = <<>>
    /\ agm' = <<>> /\ verticesGrauImpar' = <<>> /\ emparelhamento' = <<>>
    /\ cicloEuleriano' = <<>>
    /\ naoEmparelhados' = <<>> /\ emp' = <<>>
    /\ adj' = <<>> /\ pilha' = <<>> /\ ciclo' = <<>>
    /\ resultado' = Nulo /\ erro' = Nulo
    /\ UNCHANGED <<execucao, anterior, planner, pendente, sugestao, rotas>>

\* App.tsx lines 53-59, from the ControlPanel's button (line 57: disabled={isLoading})
handleClear ==
    /\ Ocioso
    /\ app.mode = "solver"
    /\ ~app.isLoading
    /\ app' = Limpo(app)
    /\ UNCHANGED <<planner, pendente, sugestao>>
    /\ SemPasso

\* App.tsx lines 61-64, from a TabButton (lines 103-104: disabled={isLoading});
\* the planner is mounted afresh when the mode becomes practical
handleModeChange ==
    /\ Ocioso
    /\ ~app.isLoading
    /\ \E newMode \in {"solver", "practical"} :
          /\ app' = [Limpo(app) EXCEPT !.mode = newMode]
          /\ planner' = IF newMode = "solver" THEN Nulo
                        ELSE IF app.mode = "practical" THEN planner
                        ELSE PlannerInicial
    /\ UNCHANGED <<pendente, sugestao>>
    /\ SemPasso

\* ResultsPanel's view buttons (part_000 lines 316-352), shown when
\* resultado && !isLoading (App.tsx line 117)
setVisualizacaoAtiva ==
    /\ Ocioso
    /\ app.resultado # Nulo /\ ~app.isLoading
    /\ \E view \in Visualizacoes : app' = [app EXCEPT !.visualizacaoAtiva = view]
    /\ UNCHANGED <<planner, pendente, sugestao>>
    /\ SemPasso

\* part_002 lines 76-82, 209-211: one more location
handleAddLocation ==
    /\ Ocioso
    /\ app.mode = "practical" /\ ~app.isLoading
    /\ planner.locations < MaxLocais
    /\ planner' = [planner EXCEPT !.locations = @ + 1]
    /\ UNCHANGED <<app, pendente, sugestao>>
    /\ SemPasso

\* part_002 lines 84-86, 244
handleRemoveLocation ==
    /\ Ocioso
    /\ app.mode = "practical" /\ ~app.isLoading
    /\ planner.locations > 0
    /\ planner' = [planner EXCEPT !.locations = @ - 1]
    /\ UNCHANGED <<app, pendente, sugestao>>
    /\ SemPasso

\* part_002 lines 163-172
setFuelConsumption ==
    /\ Ocioso
    /\ app.mode = "practical" /\ ~app.isLoading
    /\ \E t \in TextosConsumo : planner' = [planner EXCEPT !.fuelConsumption = t]
    /\ UNCHANGED <<app, pendente, sugestao>>
    /\ SemPasso

\* part_002 lines 176-185
setGasPrice ==
    /\ Ocioso
    /\ app.mode = "practical" /\ ~app.isLoading
    /\ \E t \in TextosPreco : planner' = [planner EXCEPT !.gasPrice = t]
    /\ UNCHANGED <<app, pendente, sugestao>>
    /\ SemPasso

\* part_002 lines 88-107: the click (line 254: disabled={isLoading ||
\* locations.length < 3}) runs the handler up to its await of the service
handleSolve ==
    /\ Ocioso
    /\ app.mode = "practical" /\ ~app.isLoading
    /\ planner.locations >= 3
    /\ LET consumption == parseFloat(planner.fuelConsumption)
           price       == parseFloat(planner.gasPrice)
       IN IF planner.locations < 3
          THEN /\ app' = [app EXCEPT !.erro = [mensagem |-> "PoucosLocais"]]
               /\ UNCHANGED pendente
          ELSE IF consumption.nan \/ consumption.v <= 0 \/ price.nan \/ price.v <= 0
          THEN /\ app' = [app EXCEPT !.erro = [mensagem |-> "ValoresInvalidos"]]
               /\ UNCHANGED pendente
          ELSE /\ app' = Carregando(app)
               /\ pendente' = Append(pendente, [tipo |-> "pratico",
                                                locations |-> planner.locations])
    /\ UNCHANGED <<planner, sugestao>>
    /\ SemPasso

\* getDistanceMatrixForLocations rejects (App.tsx lines 239, 273): the catch
\* and finally blocks of handleSolve (part_002 lines 132-140)
FalharMatrizDeDistancia ==
    /\ Ocioso
    /\ \E k \in DOMAIN pendente :
          /\ pendente[k].tipo = "pratico"
          /\ pendente' = Retirar(pendente, k)
    /\ \E mensagem \in ErrosDoServico :
          app' = [app EXCEPT !.erro = [mensagem |-> mensagem], !.isLoading = FALSE]
    /\ UNCHANGED <<planner, sugestao>>
    /\ SemPasso

\* getDistanceMatrixForLocations resolves: the handler builds the cost matrix
\* and calls executeChristofidesAlgorithm (part_002 lines 107-125)
ReceberMatrizDeDistancia ==
    /\ Ocioso
    /\ \E k \in DOMAIN pendente :
          /\ pendente[k].tipo = "pratico"
          /\ grafo' \in GrafosPlanner(pendente[k].locations)
          /\ pendente' = Retirar(pendente, k)
    /\ pc' = "inicio"
    /\ UNCHANGED <<texto, app, planner, sugestao, rotas>>
    /\ SemLocais

\* part_002 lines 143-148, 259-261
handleClearPlanner ==
    /\ Ocioso
    /\ app.mode = "practical" /\ ~app.isLoading
    /\ planner' = [planner EXCEPT !.locations = 0]
    /\ app' = Limpo(app)
    /\ UNCHANGED <<pendente, sugestao>>
    /\ SemPasso

NextApp ==
    \/ setInputText
    \/ handleSolveMatrix
    \/ RetomarSolveMatrix
    \/ ParseInput
    \/ Next
    \/ ConcluirSolve
    \/ handleClear
    \/ handleModeChange
    \/ setVisualizacaoAtiva
    \/ handleAddLocation
    \/ handleRemoveLocation
    \/ setFuelConsumption
    \/ setGasPrice
    \/ handleSolve
    \/ FalharMatrizDeDistancia
    \/ ReceberMatrizDeDistancia
    \/ handleClearPlanner

SpecApp == InitApp /\ [][NextApp]_vars

\* ------------------------------------------ getMultipleRoutePathGeometries
Paradas == {[name |-> "a", lat |-> 0, lon |-> 1], [name |-> "b", lat |-> 2, lon |-> 3]}

\* route geometries as the routing service sends them: lists of [lon, lat]
Geometrias == {<<>>, <<<<1, 0>>, <<3, 2>>>>, <<<<1, 0>>, <<5, 4>>, <<3, 2>>>>}

\* what one routing request can come to: fetch rejects, a status that is not
\* ok, a body that is no JSON, or data with a code and a list of routes
Respostas ==
    {[tipo |-> t, code |-> "Ok", routes |-> <<>>] :
        t \in {"fetchRejeita", "naoOk", "jsonRejeita"}}
    \cup {[tipo |-> "dados", code |-> c, routes |-> rs] :
            c \in {"Ok", "NoRoute"}, rs \in {<<>>} \cup {<<g>> : g \in Geometrias}}

\* line 285: `${i}-${i+1}`
segmentKey(k) == <<k, "-", k + 1>>

\* the straight line written as [lon, lat] points
fallbackPathLonLat(from, to) == <<<<from.lon, from.lat>>, <<to.lon, to.lat>>>>

\* line 286
fallbackPath(from, to) == <<<<from.lat, from.lon>>, <<to.lat, to.lon>>>>

\* line 303: [lon, lat] points turned into [lat, lon] points
leafletPath(routeGeometry) ==
    [k \in DOMAIN routeGeometry |-> <<routeGeometry[k][2], routeGeometry[k][1]>>]

\* lines 291-312: the entry one response leaves for the segment from -> to
CaminhoDoSegmento(from, to, r) ==
    IF r.tipo # "dados" THEN fallbackPath(from, to)
    ELSE IF r.code = "Ok" /\ Len(r.routes) > 0 THEN leafletPath(r.routes[1])
    ELSE fallbackPath(from, to)

\* lines 278-279: the call, with a tour of at least one stop
InitRotas ==
    /\ \E k \in 1 .. MaxParadas : \E t \in [1 .. k -> Paradas] :
          rotas = [orderedTour |-> t, i |-> 0, result |-> <<>>, respostas |-> <<>>,
                   pc |-> "laco"]
    /\ grafo = Nulo
    /\ pc = "ocioso"
    /\ SemExecucao
    /\ texto = Nulo /\ app = Nulo /\ planner = Nulo /\ pendente = <<>>
    /\ sugestao = Nulo

SemRotas ==
    UNCHANGED <<grafo, pc, i, pai, custoMin, naAGM, arestasAGM, agm, verticesGrauImpar,
                emparelhamento, cicloEuleriano, naoEmparelhados, emp, adj, pilha,
                ciclo, resultado, erro, execucao, anterior, texto, app, planner,
                pendente, sugestao>>

\* one iteration of the loop (lines 282-313) with the response it receives
SegmentoDaRota ==
    /\ rotas # Nulo
    /\ rotas.pc = "laco"
    /\ rotas.i < Len(rotas.orderedTour) - 1
    /\ \E r \in Respostas :
          LET from == rotas.orderedTour[rotas.i + 1]
              to   == rotas.orderedTour[rotas.i + 2]
          IN rotas' = [rotas EXCEPT
                          !.result = (segmentKey(rotas.i) :> CaminhoDoSegmento(from, to, r))
                                     @@ rotas.result,
                          !.respostas = Append(@, r),
                          !.i = @ + 1]
    /\ SemRotas

\* line 315
RetornarRotas ==
    /\ rotas # Nulo
    /\ rotas.pc = "laco"
    /\ rotas.i >= Len(rotas.orderedTour) - 1
    /\ rotas' = [rotas EXCEPT !.pc = "retornou"]
    /\ SemRotas

NextRotas == SegmentoDaRota \/ RetornarRotas

SpecRotas == InitRotas /\ [][NextRotas]_vars

\* ------------------------------------ the planner's location suggestions
\* A text of the location input is a sequence of characters.
RECURSIVE SemEspacoInicial(_)
SemEspacoInicial(t) ==
    IF t # <<>> /\ Head(t) = " " THEN SemEspacoInicial(Tail(t)) ELSE t

\* String.prototype.trim on a text of the location input
trim(t) == Reverse(SemEspacoInicial(Reverse(SemEspacoInicial(t))))

\* suggestion.split(',')
RECURSIVE split(_, _)
split(t, parte) ==
    IF t = <<>> THEN <<parte>>
    ELSE IF Head(t) = "," THEN <<parte>> \o split(Tail(t), <<>>)
    ELSE split(Tail(t), Append(parte, Head(t)))

\* parts.join(', ')
RECURSIVE join(_)
join(partes) ==
    IF partes = <<>> THEN <<>>
    ELSE IF Len(partes) = 1 THEN partes[1]
    ELSE partes[1] \o <<",", " ">> \o join(Tail(partes))

\* part_002 line 71: suggestion.split(',').slice(0, 3).join(', ')
shortenedSuggestion(suggestion) ==
    LET partes == split(suggestion, <<>>)
    IN join(SubSeq(partes, 1, IF Len(partes) < 3 THEN Len(partes) ELSE 3))

\* texts typed into the location input: empty, two characters, three, four,
\* and four of which two are surrounding blanks
TextosDeLocal ==
    {<<>>, <<"a", "b">>, <<"a", "b", "c">>, <<"a", "b", "c", "d">>,
     <<" ", "a", "b", " ">>}

\* addresses formatPhotonFeature can build: one part, and four parts
Enderecos ==
    {<<"a", "b", "c", "d">>, <<"a", ",", "b", ",", "c", ",", "d">>}

\* part_002 line 40 and App.tsx line 171
Curto(t) == Len(trim(t)) < 3

\* App.tsx lines 170-195: what a call of getLocationSuggestions can resolve to
RespostasDeSugestao(query) ==
    IF Curto(query) THEN {<<>>}
    ELSE {<<>>} \cup {<<e>> : e \in Enderecos} \cup {<<d, e>> : d, e \in Enderecos}

\* part_002 lines 31-33 after the first run of the effect of lines 39-55
SugestaoInicial ==
    [newLocation |-> <<>>, suggestions |-> <<>>, isSuggesting |-> FALSE,
     handler |-> Nulo, emVoo |-> <<>>]

InitSugestoes ==
    /\ sugestao = SugestaoInicial
    /\ grafo = Nulo
    /\ pc = "ocioso"
    /\ SemExecucao
    /\ texto = Nulo /\ app = Nulo /\ planner = Nulo /\ pendente = <<>>
    /\ rotas = Nulo

SemSugestoes ==
    UNCHANGED <<grafo, pc, i, pai, custoMin, naAGM, arestasAGM, agm, verticesGrauImpar,
                emparelhamento, cicloEuleriano, naoEmparelhados, emp, adj, pilha,
                ciclo, resultado, erro, execucao, anterior, texto, app, planner,
                pendente, rotas>>

\* part_002 lines 39-55 when newLocation becomes novo: the cleanup of the
\* previous run clears its timer (lines 52-54), then the list is emptied
\* (lines 40-43) or a new timer is set (lines 45-50); requests already started
\* are left alone
Efeito(s, novo) ==
    IF novo = s.newLocation THEN s
    ELSE IF Curto(novo)
    THEN [s EXCEPT !.newLocation = novo, !.handler = Nulo, !.suggestions = <<>>]
    ELSE [s EXCEPT !.newLocation = novo, !.handler = [query |-> novo]]

\* part_002 line 195: onChange of the location input
setNewLocation ==
    /\ sugestao # Nulo
    /\ \E t \in TextosDeLocal :
          /\ t # sugestao.newLocation
          /\ sugestao' = Efeito(sugestao, t)
    /\ SemSugestoes

\* the timer of line 45 fires after 500 ms: lines 46-47 up to the await
DispararTemporizador ==
    /\ sugestao # Nulo
    /\ sugestao.handler # Nulo
    /\ Len(sugestao.emVoo) < MaxPedidos
    /\ sugestao' = [sugestao EXCEPT !.isSuggesting = TRUE,
                                    !.handler = Nulo,
                                    !.emVoo = Append(@, sugestao.handler)]
    /\ SemSugestoes

\* a call of getLocationSuggestions resolves: lines 48-49
ReceberSugestoes ==
    /\ sugestao # Nulo
    /\ \E k \in DOMAIN sugestao.emVoo :
          \E fetchedSuggestions \in RespostasDeSugestao(sugestao.emVoo[k].query) :
             sugestao' = [sugestao EXCEPT !.suggestions = fetchedSuggestions,
                                          !.isSuggesting = FALSE,
                                          !.emVoo = Retirar(@, k)]
    /\ SemSugestoes

\* part_002 lines 58-62: a press outside the suggestion container
handleClickOutside ==
    /\ sugestao # Nulo
    /\ sugestao' = [sugestao EXCEPT !.suggestions = <<>>]
    /\ SemSugestoes

\* part_002 lines 69-74, on an item of the list, which is rendered when
\* !isSuggesting && suggestions.length > 0 (line 220)
handleSuggestionClick ==
    /\ sugestao # Nulo
    /\ ~sugestao.isSuggesting
    /\ \E k \in DOMAIN sugestao.suggestions :
          sugestao' = Efeito([sugestao EXCEPT !.suggestions = <<>>],
                             shortenedSuggestion(sugestao.suggestions[k]))
    /\ SemSugestoes

\* part_002 lines 76-82 as far as the suggestion box goes, from the button
\* (line 209: disabled when !newLocation.trim()) with a location not yet listed
AdicionarLocal ==
    /\ sugestao # Nulo
    /\ trim(sugestao.newLocation) # <<>>
    /\ sugestao' = Efeito([sugestao EXCEPT !.suggestions = <<>>], <<>>)
    /\ SemSugestoes

NextSugestoes ==
    \/ setNewLocation
    \/ DispararTemporizador
    \/ ReceberSugestoes
    \/ handleClickOutside
    \/ handleSuggestionClick
    \/ AdicionarLocal

SpecSugestoes == InitSugestoes /\ [][NextSugestoes]_vars

\* a second invocation of executeChristofidesAlgorithm on the same graph, after
\* the first has returned or thrown; the first outcome is kept for comparison
InvocarDeNovo ==
    /\ pc \in {"done", "erro"}
    /\ execucao = 1
    /\ execucao' = 2
    /\ anterior' = [resultado |-> resultado, erro |-> erro]
    /\ pc' = "inicio"
    /\ resultado' = Nulo
    /\ erro' = Nulo
    /\ UNCHANGED <<grafo, i, pai, custoMin, naAGM, arestasAGM, agm, verticesGrauImpar,
                   emparelhamento, cicloEuleriano, naoEmparelhados, emp, adj, pilha,
                   ciclo, ambiente>>

NextDuas == Next \/ InvocarDeNovo

SpecDuas == Init /\ [][NextDuas]_vars

\* ================================================================ properties
\* vocabulary of the properties

MatcherRetornou == pc \in {"euler", "ham", "done"}

Simetrica(g) == \A a, b \in Vertices(g.n) : g.m[a][b] = g.m[b][a]
DiagonalZero(g) == \A a \in Vertices(g.n) : g.m[a][a] = 0

\* vertices reachable from the set S over strictly positive, finite entries
RECURSIVE AlcancaPorMatriz(_, _)
AlcancaPorMatriz(S, g) ==
    LET T == S \cup {b \in Vertices(g.n) :
                       \E a \in S : g.m[a][b] > 0 /\ g.m[a][b] < Infinity}
    IN IF T = S THEN S ELSE AlcancaPorMatriz(T, g)

ConexoPorMatriz(g) == g.n >= 1 /\ AlcancaPorMatriz({0}, g) = Vertices(g.n)

GrafoValidoConexo(g) ==
    g.n >= 1 /\ DiagonalZero(g) /\ Simetrica(g) /\ ConexoPorMatriz(g)

\* vertices reachable from S over the undirected edges of a list
RECURSIVE AlcancaPorArestas(_, _)
AlcancaPorArestas(S, arestas) ==
    LET T == S \cup {arestas[k].para : k \in {j \in DOMAIN arestas : arestas[j].de \in S}}
               \cup {arestas[k].de : k \in {j \in DOMAIN arestas : arestas[j].para \in S}}
    IN IF T = S THEN S ELSE AlcancaPorArestas(T, arestas)

ConectaTodos(arestas, n) == AlcancaPorArestas({0}, arestas) = Vertices(n)

\* a list of edges has no cycle: stripping edges that hang on a vertex of degree
\* one, again and again, leaves nothing (K is a set of positions in the list)
GrauEm(arestas, K, v) ==
    Cardinality({k \in K : arestas[k].de = v}) + Cardinality({k \in K : arestas[k].para = v})

RECURSIVE Podar(_, _)
Podar(arestas, K) ==
    LET folhas == {k \in K : GrauEm(arestas, K, arestas[k].de) = 1
                              \/ GrauEm(arestas, K, arestas[k].para) = 1}
    IN IF folhas = {} THEN K ELSE Podar(arestas, K \ folhas)

SemCiclo(arestas) == Podar(arestas, DOMAIN arestas) = {}

Minimo(S) == CHOOSE x \in S : \A y \in S : x <= y

\* least total weight of a tree that spans the vertex set S (0 \in S) using
\* strictly positive entries; Infinity when there is none.  Every tree on two or
\* more vertices has a leaf v other than the root, hanging on some u.
RECURSIVE PesoMinimoArvore(_, _)
PesoMinimoArvore(S, g) ==
    IF S = {0} THEN 0
    ELSE Minimo({Infinity} \cup
           UNION {LET sub == PesoMinimoArvore(S \ {v}, g)
                  IN {Mais(sub, g.m[u][v]) : u \in {w \in S \ {v} : g.m[w][v] > 0}}
                  : v \in S \ {0}})

SeqToSet(s) == {s[k] : k \in DOMAIN s}

\* ---------------------------------------------------------------------- C1
\* C1: on every valid connected graph (N >= 1, zero diagonal, symmetric, positive
\* entries connecting all vertices) the run never throws, and the returned
\* caminho has N+1 entries, equal first and last entry, and its first N entries
\* are a permutation of 0..N-1.
C1_CicloHamiltoniano ==
    (pc \in {"erro", "done"} /\ GrafoValidoConexo(grafo)) =>
        /\ pc # "erro"
        /\ pc = "done" =>
             LET c == resultado.cicloHamiltoniano.caminho
             IN /\ Len(c) = grafo.n + 1
                /\ c[1] = c[Len(c)]
                /\ {c[k] : k \in 1 .. grafo.n} = Vertices(grafo.n)

C1_Witness ==
    /\ pc = "done"
    /\ GrafoValidoConexo(grafo)
    /\ grafo.n = 4
    /\ Len(resultado.cicloEuleriano) > grafo.n + 1

\* ---------------------------------------------------------------------- C2
\* C2: whenever encontrarAGM returns (the state in which its value is bound to
\* agm), the edge list has exactly N-1 edges, has no cycle and connects all N
\* vertices.
C2_ArvoreGeradora ==
    pc = "impar" =>
        /\ Len(agm) = grafo.n - 1
        /\ SemCiclo(agm)
        /\ ConectaTodos(agm, grafo.n)

C2_Witness == pc = "impar" /\ grafo.n = 4 /\ Len(agm) = 3 /\ agm[3].de = 2

\* ---------------------------------------------------------------------- C3
\* C3: on a symmetric matrix whose positive entries connect all vertices, the
\* weights of the edges returned by encontrarAGM sum to the least total weight
\* of any spanning tree over strictly positive entries.
C3_PesoMinimo ==
    (pc = "impar" /\ Simetrica(grafo) /\ ConexoPorMatriz(grafo)) =>
        SomaPesos(agm) = PesoMinimoArvore(Vertices(grafo.n), grafo)

C3_Witness ==
    /\ pc = "impar" /\ grafo.n = 4 /\ Simetrica(grafo)
    /\ SomaPesos(agm) = 5
    /\ \E a, b \in Vertices(grafo.n) : a # b /\ grafo.m[a][b] = 0

\* ---------------------------------------------------------------------- C4
\* C4: in every successful run cicloEuleriano starts and ends at vertex 0, has
\* |agm| + |emparelhamento| + 1 entries, and its consecutive pairs use every edge
\* of agm and emparelhamento together exactly once (undirected, parallel edges
\* counted separately).
VezesNaLista(arestas, a, b) ==
    Cardinality({k \in DOMAIN arestas : {arestas[k].de, arestas[k].para} = {a, b}})

VezesNoPasseio(w, a, b) ==
    Cardinality({k \in 1 .. (Len(w) - 1) : {w[k], w[k + 1]} = {a, b}})

C4_CicloEuleriano ==
    pc = "done" =>
        LET w == resultado.cicloEuleriano
            multigrafo == resultado.agm \o resultado.emparelhamento
        IN /\ w[1] = 0 /\ w[Len(w)] = 0
           /\ Len(w) = Len(resultado.agm) + Len(resultado.emparelhamento) + 1
           /\ \A a, b \in Vertices(grafo.n) :
                  VezesNoPasseio(w, a, b) = VezesNaLista(multigrafo, a, b)

C4_Witness ==
    /\ pc = "done"
    /\ Len(resultado.emparelhamento) = 2
    /\ \E a, b \in Vertices(grafo.n) :
          VezesNaLista(resultado.agm \o resultado.emparelhamento, a, b) = 2

\* ---------------------------------------------------------------------- C5
\* C5: whenever the matcher has returned, every vertex of verticesGrauImpar is an
\* endpoint of exactly one matching edge, no other vertex is an endpoint of one,
\* and there are half as many matching edges as odd-degree vertices.
C5_EmparelhamentoPerfeito ==
    MatcherRetornou =>
        /\ \A v \in Vertices(grafo.n) :
              Grau(emparelhamento, v) = IF v \in SeqToSet(verticesGrauImpar) THEN 1 ELSE 0
        /\ 2 * Len(emparelhamento) = Len(verticesGrauImpar)

C5_Witness == pc = "euler" /\ Len(verticesGrauImpar) = 4 /\ Len(emparelhamento) = 2

\* ---------------------------------------------------------------------- C6
\* C6: the list encontrarVerticesGrauImpar returns for a tree returned by
\* encontrarAGM has an even number of elements.
C6_ImparesPar ==
    pc \in {"emp", "euler", "ham", "done"} => Len(verticesGrauImpar) % 2 = 0

C6_Witness == pc = "emp" /\ Len(verticesGrauImpar) = 4 /\ emp = <<>>

\* ---------------------------------------------------------------------- C7
SemLigacao(x) == x = 0 \/ x >= Infinity

\* some vertex has only zero/unreachable costs in its row toward the others
LinhaSemLigacao(g) ==
    \E v \in Vertices(g.n) : \A w \in Vertices(g.n) \ {v} : SemLigacao(g.m[v][w])

\* ... in its row and in its column
VerticeIsolado(g) ==
    \E v \in Vertices(g.n) : \A w \in Vertices(g.n) \ {v} :
        SemLigacao(g.m[v][w]) /\ SemLigacao(g.m[w][v])

FalhaPorDesconexo ==
    /\ pc \in {"inicio", "agm", "erro"}
    /\ resultado = Nulo
    /\ pc = "erro" => erro = [mensagem |-> "GrafoNaoConexo"]

\* C7 as stated: whenever some vertex (of two or more) has only zero/unreachable
\* costs in its row toward all other vertices, the run fails with the
\* disconnected-graph error and returns nothing.
C7_Original == FalhaPorDesconexo \/ ~(grafo.n >= 2 /\ LinhaSemLigacao(grafo))

\* C7 amended: whenever some vertex (of two or more) has only zero/unreachable
\* costs toward all other vertices in its row and in its column, the run never
\* gets past encontrarAGM, returns nothing, and the only error it throws is the
\* disconnected-graph error.
C7_Desconexo == FalhaPorDesconexo \/ ~(grafo.n >= 2 /\ VerticeIsolado(grafo))

C7_Witness ==
    /\ pc = "erro" /\ erro = [mensagem |-> "GrafoNaoConexo"]
    /\ grafo.n = 3 /\ VerticeIsolado(grafo) /\ i = 2

\* ---------------------------------------------------------------------- C8
\* C8: a second invocation on the same graph ends as the first did: the same
\* error, or a result with the same agm, verticesGrauImpar, emparelhamento,
\* cicloEuleriano and cicloHamiltoniano.
C8_MesmoResultado ==
    (execucao = 2 /\ pc \in {"done", "erro"}) =>
        anterior = [resultado |-> resultado, erro |-> erro]

C8_Witness ==
    /\ execucao = 2 /\ pc = "done" /\ grafo.n = 4
    /\ Len(resultado.emparelhamento) = 2
    /\ anterior.resultado = resultado

\* ---------------------------------------------------------------------- C9
Metrico(g) ==
    /\ DiagonalZero(g) /\ Simetrica(g)
    /\ \A a, b \in Vertices(g.n) : a # b => g.m[a][b] > 0
    /\ \A a, b, c \in Vertices(g.n) : g.m[a][c] <= g.m[a][b] + g.m[b][c]

\* C9: on a symmetric, zero-diagonal, positive matrix with the triangle
\* inequality, cicloHamiltoniano.custo is at most the total weight of the agm
\* edges plus the emparelhamento edges.
C9_AtalhoNaoAumenta ==
    (pc = "done" /\ Metrico(grafo)) =>
        resultado.cicloHamiltoniano.custo
            <= SomaPesos(resultado.agm) + SomaPesos(resultado.emparelhamento)

C9_Witness ==
    /\ pc = "done" /\ Metrico(grafo) /\ grafo.n = 4
    /\ \E a, b \in Vertices(grafo.n) : grafo.m[a][b] = 3
    /\ resultado.cicloHamiltoniano.custo
           < SomaPesos(resultado.agm) + SomaPesos(resultado.emparelhamento)

\* --------------------------------------------------------------------- C10
ResultadoVerticeUnico(custo) ==
    [agm |-> <<>>, verticesGrauImpar |-> <<>>, emparelhamento |-> <<>>,
     cicloEuleriano |-> <<0>>,
     cicloHamiltoniano |-> [caminho |-> <<0, 0>>, custo |-> custo]]

\* C10 as stated: on every single-vertex graph the run succeeds with empty agm,
\* odd-degree list and matching, circuit [0] and cycle [0, 0] of cost 0.
C10_Original ==
    grafo.n = 1 =>
        /\ pc # "erro"
        /\ pc = "done" => resultado = ResultadoVerticeUnico(0)

\* C10 amended: ... and cycle [0, 0] whose cost is the matrix entry [0][0], which
\* is 0 when the diagonal is zero.
C10_VerticeUnico ==
    grafo.n = 1 =>
        /\ pc # "erro"
        /\ pc = "done" => resultado = ResultadoVerticeUnico(grafo.m[0][0])

C10_Witness ==
    /\ grafo.n = 1 /\ pc = "done" /\ grafo.m[0][0] = 3
    /\ resultado.cicloHamiltoniano.custo = 3

\* --------------------------------------------------------------------- C11
ParesDe(arestas) == {{arestas[k].de, arestas[k].para} : k \in DOMAIN arestas}

\* C11: on the four-vertex scenario the run does not throw and the tree that
\* encontrarAGM returns consists of the edges 0-1, 0-2 and 0-3, of total weight 6.
C11_ArvoreDoExemplo ==
    grafo = GrafoExemplo =>
        /\ pc # "erro"
        /\ pc = "impar" =>
              /\ Len(agm) = 3
              /\ ParesDe(agm) = {{0, 1}, {0, 2}, {0, 3}}
              /\ SomaPesos(agm) = 6

C11_Witness == grafo = GrafoExemplo /\ pc = "impar" /\ Len(agm) = 3

\* --------------------------------------------------------------------- C12
\* C12 as stated: on the four-vertex scenario there are exactly two odd-degree
\* vertices after tree construction and exactly one matching edge.
C12_Original ==
    (grafo = GrafoExemplo /\ pc \in {"euler", "ham", "done"}) =>
        /\ Len(verticesGrauImpar) = 2
        /\ Len(emparelhamento) = 1

\* C12 amended: on the four-vertex scenario there are exactly four odd-degree
\* vertices after tree construction (the tree is the star at 0) and exactly two
\* matching edges.
C12_ImparesDoExemplo ==
    grafo = GrafoExemplo =>
        /\ pc # "erro"
        /\ pc \in {"emp", "euler", "ham", "done"} => Len(verticesGrauImpar) = 4
        /\ pc \in {"euler", "ham", "done"} => Len(emparelhamento) = 2

C12_Witness ==
    /\ grafo = GrafoExemplo /\ pc = "euler"
    /\ verticesGrauImpar = <<0, 1, 2, 3>>
    /\ ParesDe(emparelhamento) = {{0, 1}, {2, 3}}

\* --------------------------------------------------------------------- C13
\* the closed tours through all vertices of g that start at 0, as vertex orders
Ordens(g) ==
    {o \in [1 .. g.n -> Vertices(g.n)] :
        o[1] = 0 /\ \A a, b \in 1 .. g.n : a # b => o[a] # o[b]}

RECURSIVE SomaDaOrdem(_, _, _)
SomaDaOrdem(g, o, k) ==
    IF k > g.n THEN 0
    ELSE g.m[o[k]][o[IF k = g.n THEN 1 ELSE k + 1]] + SomaDaOrdem(g, o, k + 1)

CustoDaOrdem(g, o) == SomaDaOrdem(g, o, 1)

CustoOtimo(g) == Minimo({CustoDaOrdem(g, o) : o \in Ordens(g)})

\* C13: on the four-vertex scenario the run does not throw and the cost of the
\* returned Hamiltonian cycle is at most twice the cost of the cheapest
\* Hamiltonian cycle over all vertex orders.
C13_DuasVezesOtimo ==
    grafo = GrafoExemplo =>
        /\ pc # "erro"
        /\ pc = "done" =>
              resultado.cicloHamiltoniano.custo <= 2 * CustoOtimo(GrafoExemplo)

C13_Witness ==
    /\ grafo = GrafoExemplo /\ pc = "done"
    /\ resultado.cicloHamiltoniano.custo = 14
    /\ CustoOtimo(GrafoExemplo) = 14

\* --------------------------------------------------------------------- C14
\* a token that is a plain decimal numeral: digits only, after an optional sign
Numeral(t) == SemSinal(t) # <<>> /\ \A k \in DOMAIN SemSinal(t) : EhDigito(SemSinal(t)[k])

\* the first line declares a positive number: one token, a numeral above zero
DeclaraPositivo(linha) ==
    Len(linha) = 1 /\ Numeral(linha[1]) /\ Sinal(linha[1]) * ValorDecimal(SemSinal(linha[1]), 0) > 0

NDeclarado(linha) == ValorDecimal(SemSinal(linha[1]), 0)

NaoNumerica(t) == ~Numeral(t) /\ SemSinal(t) # PalavraInfinity

EntradaMalformada(t) ==
    LET ls == Linhas(t)
    IN \/ ~DeclaraPositivo(ls[1])
       \/ Len(ls) - 1 # NDeclarado(ls[1])
       \/ \E k \in 2 .. Len(ls) :
             \/ Len(ls[k]) # NDeclarado(ls[1])
             \/ \E c \in DOMAIN ls[k] : NaoNumerica(ls[k][c])

ErrosDeEntrada ==
    {[mensagem |-> x] : x \in {"EntradaInvalida", "NInvalido", "DimensaoInvalida"}}

\* parseInput threw, no graph exists and no algorithm stage has run
FalhaNaEntrada ==
    /\ pc \in {"parse", "erro"}
    /\ grafo = Nulo
    /\ resultado = Nulo
    /\ pc = "erro" => erro \in ErrosDeEntrada
    /\ arestasAGM = <<>> /\ naAGM = <<>>

\* C14: whenever the declared N is not a positive number, the number of matrix
\* rows differs from N, some row does not have exactly N cells, or some cell is
\* non-numeric, parseInput fails with an error, produces no graph, and
\* resolverChristofides runs no algorithm stage.
C14_Original == FalhaNaEntrada \/ ~EntradaMalformada(texto.linhas)

\* --------------------------------------------------------------------- C15
CelulaNaoFinita(t) ==
    \E k \in 2 .. Len(Linhas(t)) : \E c \in DOMAIN Linhas(t)[k] : ~Numeral(Linhas(t)[k][c])

\* C15: whenever some matrix cell is not a well-formed finite number (an infinite
\* value in particular), the validator fails with a malformed-input error and the
\* cell never reaches the algorithm stages.
C15_Original == FalhaNaEntrada \/ ~CelulaNaoFinita(texto.linhas)

\* --------------------------------------------------------------------- C16
MarcaSentinela(g) == \E a, b \in Vertices(g.n) : g.m[a][b] = Infinity

SemSentinela(arestas) ==
    \A k \in DOMAIN arestas :
        /\ arestas[k].peso # Infinity
        /\ grafo.m[arestas[k].de][arestas[k].para] # Infinity

\* C16: for every graph whose matrix marks some pairs with the unreachable
\* sentinel, a run that returns has no spanning-tree edge and no matching edge
\* whose cost is the sentinel: it avoids such pairs or ends with an error.
C16_Original ==
    (pc = "done" /\ MarcaSentinela(grafo))
        => SemSentinela(resultado.agm) /\ SemSentinela(resultado.emparelhamento)

AGMProduzida == pc \in {"impar", "emp", "euler", "ham", "done", "erro"}
ImparesProduzidos == pc \in {"emp", "euler", "ham", "done", "erro"}
EmparelhamentoProduzido == pc \in {"euler", "ham", "done", "erro"}
EulerianoProduzido == pc \in {"ham", "done", "erro"}

\* C18: no step of a run changes the input graph, successful or failed; once a
\* stage has returned its output no later step changes it, and the result holds
\* agm, verticesGrauImpar, emparelhamento and cicloEuleriano as they were produced.
C18_SemMutacao ==
    [][/\ grafo' = grafo
       /\ AGMProduzida => agm' = agm
       /\ ImparesProduzidos => verticesGrauImpar' = verticesGrauImpar
       /\ EmparelhamentoProduzido => emparelhamento' = emparelhamento
       /\ EulerianoProduzido => cicloEuleriano' = cicloEuleriano
       /\ pc' = "done" =>
             /\ resultado'.agm = agm
             /\ resultado'.verticesGrauImpar = verticesGrauImpar
             /\ resultado'.emparelhamento = emparelhamento
             /\ resultado'.cicloEuleriano = cicloEuleriano]_vars

C18_Witness ==
    /\ pc = "done"
    /\ grafo.n = 4
    /\ Len(resultado.agm) = 3 /\ resultado.agm = agm
    /\ Len(resultado.emparelhamento) = 2 /\ resultado.emparelhamento = emparelhamento
    /\ resultado.cicloEuleriano = cicloEuleriano

\* --------------------------------------------------------------------- C19
\* a stage of resolverChristofides has thrown inside the matrix-solver handler
SolveMatrixLancou == pc = "erro" /\ texto # Nulo

\* C19: when any stage of resolverChristofides throws, the matrix-solver handler
\* ends with erro set to the error's message, resultado null and isLoading false;
\* nothing is left in flight (no retry) and the solve button is enabled again.
C19_ErroTerminal ==
    [][SolveMatrixLancou =>
          /\ resultado = Nulo
          /\ app'.erro = erro
          /\ app'.resultado = Nulo
          /\ ~app'.isLoading
          /\ pendente' = <<>> /\ pc' = "ocioso"
          /\ SolveHabilitado(app')]_vars

C19_Witness ==
    /\ Ocioso /\ pendente = <<>>
    /\ app.mode = "solver"
    /\ app.erro = [mensagem |-> "SemPar"] /\ app.resultado = Nulo /\ ~app.isLoading

\* --------------------------------------------------------------------- C20
\* solve handlers started and not yet finished: suspended at their await, or
\* running the core
EmVoo == Len(pendente) + (IF Ocioso THEN 0 ELSE 1)

\* C20: at most one solve handler is in flight; while one is, isLoading is true
\* and no clear, mode change or edit has touched what it started from: the mode
\* and the text or the locations it captured are still those of the application.
C20_UmaExecucaoEmVoo ==
    /\ EmVoo <= 1
    /\ EmVoo = 1 => app.isLoading
    /\ \A k \in DOMAIN pendente :
          IF pendente[k].tipo = "matriz"
          THEN app.mode = "solver" /\ app.inputText = pendente[k].inputText
          ELSE app.mode = "practical" /\ planner.locations = pendente[k].locations
    /\ ~Ocioso =>
          IF texto # Nulo
          THEN app.mode = "solver" /\ app.inputText = texto.linhas
          ELSE app.mode = "practical" /\ planner.locations = grafo.n

C20_Witness ==
    /\ app.isLoading
    /\ Len(pendente) = 1 /\ pendente[1].tipo = "pratico"
    /\ app.mode = "practical" /\ planner.locations = 3

\* --------------------------------------------------------------------- C21
\* the request failed, came back with a status that is not ok, or found no route
SemRota(r) == r.tipo # "dados" \/ r.code # "Ok" \/ r.routes = <<>>

\* C21: for a tour of k stops the call never rejects; it returns exactly the k-1
\* entries keyed "i-(i+1)" for i in 0..k-2, and the entry of every segment whose
\* request failed, was not ok or found no route is the straight line between that
\* segment's two stops, whatever happened to the other segments.
C21_RotasPorSegmento ==
    rotas # Nulo =>
        /\ rotas.pc \in {"laco", "retornou"}
        /\ rotas.pc = "retornou" =>
              LET k == Len(rotas.orderedTour)
              IN /\ DOMAIN rotas.result = {<<j, "-", j + 1>> : j \in 0 .. (k - 2)}
                 /\ Cardinality(DOMAIN rotas.result) = k - 1
                 /\ \A j \in 0 .. (k - 2) :
                       SemRota(rotas.respostas[j + 1]) =>
                           rotas.result[<<j, "-", j + 1>>] =
                               << <<rotas.orderedTour[j + 1].lat, rotas.orderedTour[j + 1].lon>>,
                                  <<rotas.orderedTour[j + 2].lat, rotas.orderedTour[j + 2].lon>> >>

C21_Witness ==
    /\ rotas # Nulo
    /\ rotas.pc = "retornou"
    /\ Len(rotas.orderedTour) = 3
    /\ rotas.respostas[1].tipo = "dados" /\ ~SemRota(rotas.respostas[1])
    /\ rotas.respostas[2].tipo = "naoOk"

\* --------------------------------------------------------------------- C22
Ligacao(x) == x > 0 /\ x < Infinity

\* C22: a vertex is only ever attached through a strictly positive, finite entry:
\* while encontrarAGM runs every candidate parent p of a vertex c has
\* matrizAdjacencia[p][c] positive and finite, and so has every edge
\* {de: p, para: c} of the tree it returns; zero and negative entries between
\* distinct vertices never attach a vertex.
C22_SoEntradasPositivas ==
    /\ pc = "agm" =>
          \A c \in Vertices(grafo.n) :
              pai[c] # -1 => Ligacao(grafo.m[pai[c]][c]) /\ custoMin[c] = grafo.m[pai[c]][c]
    /\ pc \in {"agm", "impar", "emp", "euler", "ham", "done"} =>
          \A k \in DOMAIN arestasAGM :
              Ligacao(grafo.m[arestasAGM[k].de][arestasAGM[k].para])
    /\ pc \in {"impar", "emp", "euler", "ham", "done"} =>
          \A k \in DOMAIN agm : Ligacao(grafo.m[agm[k].de][agm[k].para])

C22_Witness ==
    /\ pc = "impar"
    /\ grafo.n = 2 /\ grafo.m[0][1] = 1 /\ grafo.m[1][0] = -1
    /\ agm = <<Aresta(0, 1, -1)>>

\* --------------------------------------------------------------------- C23
\* the vertices a step of encontrarAGM has just marked as included
Incluidos == {v \in Vertices(grafo.n) : ~naAGM[v] /\ naAGM'[v]}

\* C23: every selection step of encontrarAGM adds exactly one vertex, a
\* not-yet-included vertex of the smallest current connecting cost, and among
\* the not-yet-included vertices that share this cost the one of lowest index.
C23_SelecaoDoMinimo ==
    [][(pc = "agm" /\ pc' = "agm" /\ i' = i + 1) =>
          /\ Cardinality(Incluidos) = 1
          /\ \A u \in Incluidos : \A v \in Vertices(grafo.n) :
                ~naAGM[v] =>
                    /\ custoMin[u] <= custoMin[v]
                    /\ custoMin[v] = custoMin[u] => u <= v]_vars

\* vertex 1 was taken while vertex 2 waited at the same cost
C23_Witness ==
    /\ pc = "agm" /\ i = 2
    /\ grafo.n = 4
    /\ naAGM[0] /\ naAGM[1] /\ ~naAGM[2]
    /\ custoMin[1] = custoMin[2] /\ pai[1] = 0 /\ pai[2] = 0

\* --------------------------------------------------------------------- C24
Emparelhado(x) == \E k \in DOMAIN emp : x \in {emp[k].de, emp[k].para}

\* the vertices of the input list not yet matched, in the order of the list
Restantes == SelectSeq(verticesGrauImpar, LAMBDA x : ~Emparelhado(x))

Posicao(s, x) == CHOOSE k \in DOMAIN s : s[k] = x

\* C24: every step of the matcher that records an edge takes for u the first
\* remaining vertex of the input list and for v the remaining vertex of lowest
\* matriz[u][v], the first such in list order on a tie, and records
\* {de: u, para: v, peso: matriz[u][v]}.
C24_PassoGuloso ==
    [][(pc = "emp" /\ Len(emp') = Len(emp) + 1) =>
          LET e      == emp'[Len(emp')]
              outros == Tail(Restantes)
          IN /\ e.de = Head(Restantes)
             /\ \E k \in DOMAIN outros :
                   /\ e.para = outros[k]
                   /\ \A j \in DOMAIN outros :
                         /\ grafo.m[e.de][e.para] <= grafo.m[e.de][outros[j]]
                         /\ grafo.m[e.de][outros[j]] = grafo.m[e.de][e.para] => k <= j
             /\ e.peso = grafo.m[e.de][e.para]
             /\ SubSeq(emp', 1, Len(emp)) = emp]_vars

\* vertex 0 was paired with vertex 1 while vertex 2 was as close
C24_Witness ==
    /\ pc = "emp"
    /\ verticesGrauImpar = <<0, 1, 2, 3>>
    /\ emp = <<Aresta(0, 1, 1)>>
    /\ grafo.m[0][2] = 1

\* --------------------------------------------------------------------- C25
GrauNoMultigrafo(v) ==
    LET multigrafo == agm \o emparelhamento
    IN Cardinality({k \in DOMAIN multigrafo : multigrafo[k].de = v})
       + Cardinality({k \in DOMAIN multigrafo : multigrafo[k].para = v})

\* C25: in every run that reaches the Eulerian stage every vertex has even degree
\* in the multigraph agm followed by emparelhamento, each edge counted once at
\* each of its endpoints and parallel edges counted separately.
C25_GrausPares ==
    pc \in {"euler", "ham", "done"} =>
        \A v \in Vertices(grafo.n) : GrauNoMultigrafo(v) % 2 = 0

\* a vertex of degree three in the tree, brought to four by its matching edge
C25_Witness ==
    /\ pc = "euler"
    /\ Len(emparelhamento) = 2
    /\ \E v \in Vertices(grafo.n) :
          Grau(agm, v) = 3 /\ GrauNoMultigrafo(v) = 4

\* --------------------------------------------------------------------- C26
\* the costs of the consecutive pairs of c, from pair k backwards to the first
RECURSIVE SomaDosPares(_, _, _)
SomaDosPares(m, c, k) ==
    IF k = 0 THEN 0 ELSE Mais(SomaDosPares(m, c, k - 1), m[c[k]][c[k + 1]])

\* the same pairs read against the direction of travel
RECURSIVE SomaContraMao(_, _, _)
SomaContraMao(m, c, k) ==
    IF k = 0 THEN 0 ELSE Mais(SomaContraMao(m, c, k - 1), m[c[k + 1]][c[k]])

\* C26: the cost of the returned Hamiltonian cycle is the sum of
\* matriz[caminho[i]][caminho[i+1]] over every consecutive pair of the closed
\* path, the closing pair back to the first vertex included, each entry read
\* in the direction of travel.
C26_CustoNaDirecao ==
    pc = "done" =>
        LET c == resultado.cicloHamiltoniano.caminho
        IN /\ c[Len(c)] = c[1]
           /\ resultado.cicloHamiltoniano.custo = SomaDosPares(grafo.m, c, Len(c) - 1)

\* a three-vertex tour whose cost differs from the cost of the reverse tour
C26_Witness ==
    /\ pc = "done"
    /\ grafo.n = 3
    /\ LET c == resultado.cicloHamiltoniano.caminho
       IN /\ Len(c) = 4
          /\ resultado.cicloHamiltoniano.custo = SomaDosPares(grafo.m, c, 3)
          /\ SomaContraMao(grafo.m, c, 3) # SomaDosPares(grafo.m, c, 3)

\* --------------------------------------------------------------------- C27
\* C27: on every accepted matrix, asymmetric ones included, the weight
\* recorded on a spanning-tree edge is the connecting cost under which its
\* child vertex was selected, the entry that won the relaxation.
C27_Original ==
    [][(pc = "agm" /\ Len(arestasAGM') = Len(arestasAGM) + 1) =>
          LET e == arestasAGM'[Len(arestasAGM')]
          IN /\ e.para \in Incluidos
             /\ e.de = pai[e.para]
             /\ e.peso = custoMin[e.para]]_vars

\* --------------------------------------------------------------------- C28
\* how often x occurs in the list s
Ocorrencias(s, x) == Cardinality({k \in DOMAIN s : s[k] = x})

RECURSIVE SomaDosComprimentos(_, _)
SomaDosComprimentos(a, n) ==
    IF n = 0 THEN 0 ELSE Len(a[n - 1]) + SomaDosComprimentos(a, n - 1)

\* the undirected edges still in adj: every edge is listed at both endpoints
ArestasRestantes == SomaDosComprimentos(adj, grafo.n) \div 2

\* C28: throughout the stack walk of encontrarCicloEuleriano the remaining
\* adjacency is symmetric (v occurs in adj[u] as often as u occurs in adj[v]),
\* and remaining undirected edges + (stack length - 1) + output length is the
\* number of edges of the input multigraph; so a step that pushes removes
\* exactly one undirected edge and a step that pops removes none.
C28_InvarianteDaCaminhada ==
    pc = "euler" =>
        /\ \A u, v \in Vertices(grafo.n) :
               Ocorrencias(adj[u], v) = Ocorrencias(adj[v], u)
        /\ SomaDosComprimentos(adj, grafo.n) % 2 = 0
        /\ ArestasRestantes + (Len(pilha) - 1) + Len(ciclo)
               = Len(agm) + Len(emparelhamento)

\* mid-walk on a multigraph with a doubled edge: edges left, a stack, an output
C28_Witness ==
    /\ pc = "euler"
    /\ ArestasRestantes > 0 /\ Len(pilha) > 2 /\ Len(ciclo) > 0
    /\ \E j \in DOMAIN agm : \E k \in DOMAIN emparelhamento :
          {agm[j].de, agm[j].para} = {emparelhamento[k].de, emparelhamento[k].para}

\* --------------------------------------------------------------------- C29
\* C29: in the application state erro and resultado are never both non-null,
\* in either mode and after any sequence of solve, clear, mode-change and
\* input-edit actions: while an error message is shown, no result of an
\* earlier run is still shown.
C29_Original ==
    app # Nulo => ~(app.erro # Nulo /\ app.resultado # Nulo)

\* --------------------------------------------------------------------- C30
\* the requests whose response the step delivers
Entregues ==
    {k \in DOMAIN sugestao.emVoo :
        sugestao'.emVoo = Retirar(sugestao.emVoo, k)}

\* C30: the suggestions shown come from the query for the current input text:
\* a response to a request whose query is no longer the input text does not
\* change the suggestion list, and whenever the trimmed input text has fewer
\* than 3 characters the list is empty, even while an earlier request is in
\* flight.
C30_Original ==
    [][/\ \A k \in Entregues :
             sugestao.emVoo[k].query # sugestao.newLocation
                 => sugestao'.suggestions = sugestao.suggestions
       /\ Curto(sugestao'.newLocation) => sugestao'.suggestions = <<>>]_vars

====
